---------------------------- MODULE Spec2Model ----------------------------
(***************************************************************************)
(* Model of bbPasswordCheckv4.py: the first-boot password change of the    *)
(* "bbuser" account.  A string is a sequence of one-character strings, so  *)
(* that substring tests, reversal and per-character rewriting are computed *)
(* and not assumed.                                                        *)
(***************************************************************************)
EXTENDS Integers, Sequences, FiniteSets, TLC

(***************************************************************************)
(* Policy constants (lines 26-28).                                         *)
(***************************************************************************)
MIN_LENGTH == 12
MIN_DICT_WORD_LEN == 4
MAX_LEET_SUBSTITUTION == 2

(***************************************************************************)
(* Characters and the string primitives of Python the code relies on.      *)
(***************************************************************************)
LowerAlphabet ==
  << "a","b","c","d","e","f","g","h","i","j","k","l","m",
     "n","o","p","q","r","s","t","u","v","w","x","y","z" >>
UpperAlphabet ==
  << "A","B","C","D","E","F","G","H","I","J","K","L","M",
     "N","O","P","Q","R","S","T","U","V","W","X","Y","Z" >>
DigitChars == << "0","1","2","3","4","5","6","7","8","9" >>

Range(s) == { s[i] : i \in 1..Len(s) }

\* str.lower() on one character
LowerChar(c) ==
  IF \E i \in 1..26 : UpperAlphabet[i] = c
    THEN LowerAlphabet[CHOOSE i \in 1..26 : UpperAlphabet[i] = c]
    ELSE c

\* str.lower()
lower(s) == [ i \in 1..Len(s) |-> LowerChar(s[i]) ]

\* s[::-1]
Reverse(s) == [ i \in 1..Len(s) |-> s[Len(s) + 1 - i] ]

\* the Python test  sub in s  (the empty string is in every string)
Contains(sub, s) ==
  \E i \in 0..(Len(s) - Len(sub)) : \A j \in 1..Len(sub) : s[i + j] = sub[j]

\* str(n) for a natural number, as the f-strings format it
RECURSIVE Str(_)
Str(n) == IF n < 10 THEN << DigitChars[n + 1] >>
          ELSE Str(n \div 10) \o << DigitChars[(n % 10) + 1] >>

(***************************************************************************)
(* LEET_MAP (lines 34-37).                                                 *)
(***************************************************************************)
LEET_MAP ==
  [ c \in {"0","1","3","4","5","7","@","$","!","9"} |->
      CASE c = "0" -> "o" [] c = "1" -> "l" [] c = "3" -> "e"
        [] c = "4" -> "a" [] c = "5" -> "s" [] c = "7" -> "t"
        [] c = "@" -> "a" [] c = "$" -> "s" [] c = "!" -> "i"
        [] c = "9" -> "g" ]

(***************************************************************************)
(* The rejection reasons.  A reason is the text of the message and the     *)
(* value the f-string interpolates into it (empty when there is none).     *)
(***************************************************************************)
Reason(text, arg) == [ text |-> text, arg |-> arg ]
TooShort == Reason("Password too short (min )", Str(MIN_LENGTH))
Repeated == Reason("Password contains 4+ repeated characters", << >>)
WeakSequence(chunk) == Reason("Password contains weak sequence ''", chunk)
DictWord(w) == Reason("contains dictionary word ''", w)
ReversedDictWord(w) == Reason("contains reversed dictionary word ''", w)
TooSimilar == Reason("Too many similar characters", << >>)
NoMessage == Reason("", << >>)

(***************************************************************************)
(* obvious_patterns (lines 56-75).                                         *)
(***************************************************************************)
KeyboardRows ==
  << "q","w","e","r","t","y","u","i","o","p","a","s","d",
     "f","g","h","j","k","l","z","x","c","v","b","n","m" >>
DigitRun == << "1","2","3","4","5","6","7","8","9","0" >>
PasswordToken == << "p","a","s","s","w","o","r","d" >>

\* re.search(r"(.)\1\1\1", pw)
HasRepeat(pw) ==
  \E i \in 1..(Len(pw) - 3) :
     pw[i + 1] = pw[i] /\ pw[i + 2] = pw[i] /\ pw[i + 3] = pw[i]

\* The list literal of lines 62-67 has no commas between its four string
\* literals: Python concatenates adjacent literals, so the list holds ONE
\* string of 70 characters.
sequences == << LowerAlphabet \o KeyboardRows \o DigitRun \o PasswordToken >>

WindowLengths == << 4, 5 >>

\* lines 70-74: the for-i loop with its break, from index i (0-based)
RECURSIVE ScanFrom(_, _, _, _)
ScanFrom(seq, l, i, pw) ==
  IF i > Len(seq) - l THEN << >>
  ELSE LET chunk == SubSeq(seq, i + 1, i + l)
       IN IF Contains(chunk, pw) \/ Contains(Reverse(chunk), pw)
            THEN << WeakSequence(chunk) >>
            ELSE ScanFrom(seq, l, i + 1, pw)

\* lines 68-74 for one seq: l = 4, then l = 5
ScanSeq(seq, pw) ==
  ScanFrom(seq, WindowLengths[1], 0, pw) \o ScanFrom(seq, WindowLengths[2], 0, pw)

RECURSIVE ScanAll(_, _, _)
ScanAll(seqs, k, pw) ==
  IF k > Len(seqs) THEN << >>
  ELSE ScanSeq(seqs[k], pw) \o ScanAll(seqs, k + 1, pw)

obvious_patterns(password) ==
  LET pw == lower(password)
      issues0 == IF HasRepeat(pw) THEN << Repeated >> ELSE << >>
  IN issues0 \o ScanAll(sequences, 1, pw)

(***************************************************************************)
(* contains_dictionary (lines 80-104).  wordset is given as the sequence   *)
(* in which  for w in wordset  visits the set: a Python set of strings has *)
(* no defined iteration order.                                             *)
(***************************************************************************)
Result(hit, msg) == [ hit |-> hit, msg |-> msg ]

\* a verbatim stage without the length filter of lines 83-84
VerbatimHitUnfiltered(lowerPw, wordseq) ==
  LET hits == { k \in 1..Len(wordseq) : Contains(wordseq[k], lowerPw) }
  IN IF hits = {} THEN 0 ELSE CHOOSE k \in hits : \A m \in hits : k <= m

\* lines 82-86: the first word in iteration order that passes the length
\* filter and occurs in lower; 0 when the loop ends without returning
VerbatimHit(lowerPw, wordseq) ==
  LET hits == { k \in 1..Len(wordseq) :
                  /\ ~(Len(wordseq[k]) < MIN_DICT_WORD_LEN)
                  /\ Contains(wordseq[k], lowerPw) }
  IN IF hits = {} THEN 0 ELSE CHOOSE k \in hits : \A m \in hits : k <= m

\* lines 88-90 and 101-103: the first word in iteration order that occurs
\* in the text; no length filter here
FirstWordIn(text, wordseq) ==
  LET hits == { k \in 1..Len(wordseq) : Contains(wordseq[k], text) }
  IN IF hits = {} THEN 0 ELSE CHOOSE k \in hits : \A m \in hits : k <= m

\* a budget test that stops one substitution early
LeetBudgetStrict(leet_changes) == leet_changes < MAX_LEET_SUBSTITUTION

\* line 100
LeetBudgetOk(leet_changes) == leet_changes <= MAX_LEET_SUBSTITUTION

\* lines 93-103: the loop over the characters from position i, carrying
\* normalized_characters and leet_changes
RECURSIVE LeetScan(_, _, _, _, _)
LeetScan(lowerPw, i, normalized_characters, leet_changes, wordseq) ==
  IF i > Len(lowerPw) THEN Result(FALSE, NoMessage)
  ELSE LET ch == lowerPw[i]
           isLeet == ch \in DOMAIN LEET_MAP
           normalized == Append(normalized_characters,
                                IF isLeet THEN LEET_MAP[ch] ELSE ch)
           changes == IF isLeet THEN leet_changes + 1 ELSE leet_changes
           k == IF LeetBudgetOk(changes) THEN FirstWordIn(normalized, wordseq) ELSE 0
       IN IF k # 0 THEN Result(TRUE, DictWord(wordseq[k]))
          ELSE LeetScan(lowerPw, i + 1, normalized, changes, wordseq)

contains_dictionary(pw, wordseq) ==
  LET lowerPw == lower(pw)
      v == VerbatimHit(lowerPw, wordseq)
      r == FirstWordIn(Reverse(lowerPw), wordseq)
  IN IF v # 0 THEN Result(TRUE, DictWord(wordseq[v]))
     ELSE IF r # 0 THEN Result(TRUE, ReversedDictWord(wordseq[r]))
     ELSE LeetScan(lowerPw, 1, << >>, 0, wordseq)

(***************************************************************************)
(* check_password_strength (lines 108-124).                                *)
(***************************************************************************)
\* bool(re.search(p, pw)) for the four patterns of line 120
Search(p, pw) ==
  CASE p = "[a-z]" -> \E i \in 1..Len(pw) : pw[i] \in Range(LowerAlphabet)
    [] p = "[A-Z]" -> \E i \in 1..Len(pw) : pw[i] \in Range(UpperAlphabet)
    [] p = "[0-9]" -> \E i \in 1..Len(pw) : pw[i] \in Range(DigitChars)
    [] p = "[^A-Za-z0-9]" ->
         \E i \in 1..Len(pw) :
            pw[i] \notin Range(LowerAlphabet) \cup Range(UpperAlphabet) \cup Range(DigitChars)

ClassPatterns == << "[a-z]", "[A-Z]", "[0-9]", "[^A-Za-z0-9]" >>

RECURSIVE SumMatches(_, _)
SumMatches(k, pw) ==
  IF k > Len(ClassPatterns) THEN 0
  ELSE (IF Search(ClassPatterns[k], pw) THEN 1 ELSE 0) + SumMatches(k + 1, pw)

\* a diversity rule without the exemption of long passwords
DiversityFailsAnyLength(categories, length) == categories < 3

\* line 121
DiversityFails(categories, length) == categories < 3 /\ length < 20

\* an evaluator that runs the pattern check before the dictionary check
check_password_strength_PatternsFirst(pw, wordseq) ==
  LET reasons1 == IF Len(pw) < MIN_LENGTH THEN << TooShort >> ELSE << >>
      reasons2 == reasons1 \o obvious_patterns(pw)
      dict == contains_dictionary(pw, wordseq)
      reasons3 == IF dict.hit THEN Append(reasons2, dict.msg) ELSE reasons2
  IN IF DiversityFails(SumMatches(1, pw), Len(pw))
       THEN Append(reasons3, TooSimilar) ELSE reasons3

check_password_strength(pw, wordseq) ==
  LET reasons0 == << >>
      reasons1 == IF Len(pw) < MIN_LENGTH THEN Append(reasons0, TooShort) ELSE reasons0
      dict == contains_dictionary(pw, wordseq)
      reasons2 == IF dict.hit THEN Append(reasons1, dict.msg) ELSE reasons1
      reasons3 == reasons2 \o obvious_patterns(pw)
      categories == SumMatches(1, pw)
      reasons4 == IF DiversityFails(categories, Len(pw))
                    THEN Append(reasons3, TooSimilar) ELSE reasons3
  IN reasons4

(***************************************************************************)
(* load_word_set (lines 41-52).  A file is "missing" (FileNotFoundError),  *)
(* "denied" (PermissionError) or "readable", with its lines.               *)
(***************************************************************************)
DEFAULT_DICT_FILES == << "/usr/share/dict/cracklib-small" >>

Whitespace == { " ", "\t", "\n", "\r" }

\* str.strip()
RECURSIVE LStrip(_)
LStrip(s) == IF s # << >> /\ Head(s) \in Whitespace THEN LStrip(Tail(s)) ELSE s
Strip(s) == Reverse(LStrip(Reverse(LStrip(s))))

\* lines 46-49: the words one readable file adds, from line k on
RECURSIVE ReadLines(_, _, _)
ReadLines(lines, k, words) ==
  IF k > Len(lines) THEN words
  ELSE LET w == lower(Strip(lines[k]))
       IN ReadLines(lines, k + 1,
                    IF Len(w) >= MIN_DICT_WORD_LEN THEN words \cup {w} ELSE words)

\* lines 43-51: the loop over the paths, from path k on
RECURSIVE LoadFrom(_, _, _, _)
LoadFrom(paths, k, files, words) ==
  IF k > Len(paths) THEN words
  ELSE IF files[paths[k]].state \in {"missing", "denied"}
         THEN LoadFrom(paths, k + 1, files, words)
         ELSE LoadFrom(paths, k + 1, files, ReadLines(files[paths[k]].lines, 1, words))

load_word_set(paths, files) == LoadFrom(paths, 1, files, {})

\* the orders in which a for loop can visit a set
Orders(S) ==
  { s \in [1..Cardinality(S) -> S] : \A i, j \in 1..Cardinality(S) : s[i] = s[j] => i = j }

(***************************************************************************)
(* set_system_password (lines 129-145).  passwd is what the passwd utility *)
(* does when it is run: "rc0", "rcNonzero", or "missing" (subprocess.run   *)
(* raises FileNotFoundError).  The result is "True", "False", or           *)
(* "propagates" when an exception leaves the function.                     *)
(***************************************************************************)
\* the names bound at module level (lines 17-37 and the defs)
ModuleGlobals ==
  { "sys", "re", "subprocess", "getpass", "os", "Path", "MARKER", "MIN_LENGTH",
    "MIN_DICT_WORD_LEN", "MAX_LEET_SUBSTITUTION", "DEFAULT_DICT_FILES", "LEET_MAP",
    "load_word_set", "obvious_patterns", "contains_dictionary",
    "check_password_strength", "set_system_password", "main" }

\* an except clause that names only the missing-utility error
CaughtOSErrorOnly(exc) == exc \in { "FileNotFoundError" }

\* line 143: except Exception
Caught(exc) == exc \in { "NameError", "FileNotFoundError" }

set_system_password(password, passwd) ==
  LET raised ==
        \* line 133 reads the global bbpassword before subprocess.run is called
        IF "bbpassword" \notin ModuleGlobals THEN "NameError"
        ELSE IF passwd = "missing" THEN "FileNotFoundError"
        ELSE "none"
  IN IF raised # "none"
       THEN (IF Caught(raised) THEN "False" ELSE "propagates")
       ELSE IF passwd # "rc0" THEN "False" ELSE "True"

PasswdBehaviours == { "rc0", "rcNonzero", "missing" }

(***************************************************************************)
(* Inputs.  A candidate password is a concatenation of at most MaxParts    *)
(* fragments; the fragments carry the cases of the policy.                 *)
(***************************************************************************)
MaxParts == 2

Abcd == << "a", "b", "c", "d" >>
Digits123456 == << "1", "2", "3", "4", "5", "6" >>
PassWordMixed == << "P", "a", "s", "s", "W", "o", "r", "d" >>
Dr4g0n == << "d", "r", "4", "g", "0", "n" >>
Dollar == << "$" >>
Nogard == << "n", "o", "g", "a", "r", "d" >>
Aaaa == << "a", "a", "a", "a" >>
Strong8 == << "H", "j", "%", "R", "w", "&", "T", "n" >>
Lower10 == << "m", "v", "k", "t", "z", "r", "h", "b", "g", "q" >>

Fragments ==
  << Abcd, Digits123456, PassWordMixed, Dr4g0n, Dollar, Nogard, Aaaa, Strong8, Lower10 >>

RECURSIVE Join(_)
Join(parts) == IF parts = << >> THEN << >> ELSE Fragments[Head(parts)] \o Join(Tail(parts))

Candidates ==
  UNION { { Join(parts) : parts \in [1..n -> 1..Len(Fragments)] } : n \in 0..MaxParts }

Dragon == << "d", "r", "a", "g", "o", "n" >>
Word_password == << "p", "a", "s", "s", "w", "o", "r", "d" >>
Word_pass == << "p", "a", "s", "s" >>
Word_ab == << "a", "b" >>

\* word sets handed to the evaluator directly (any set of strings)
WordSets ==
  { {}, {Dragon}, {Word_password, Word_pass}, {Word_password, Word_ab}, {<< >>} }

WordOrders == UNION { Orders(S) : S \in WordSets }

\* states of the dictionary file on the device
File(state, lines) == [ state |-> state, lines |-> lines ]

DictFiles ==
  { File("missing", << >>),
    File("denied", << >>),
    File("readable",
         << << " ", "D", "r", "a", "g", "o", "n", "\n" >>,
            << "a", "b", "\n" >>,
            << "p", "a", "s", "s", "\n" >>,
            << "D", "r", "a", "g", "o", "n", "\n" >> >>) }

\* what the user types at the prompts
PromptInputs ==
  { Strong8 \o Strong8, Strong8 \o Dr4g0n, Abcd \o Digits123456 }

(***************************************************************************)
(* State.                                                                  *)
(***************************************************************************)
VARIABLES
  pc,       \* where the process is
  marker,   \* MARKER.exists()
  files,    \* the file system: path -> File
  wordset,  \* the word set, as the sequence in which it is iterated
  pw1,      \* first entry / the password under evaluation
  pw2,      \* second entry
  reasons,  \* result of check_password_strength
  dict,     \* result of contains_dictionary
  issues,   \* result of obvious_patterns
  passwd,   \* what passwd does (would do) on the last applier call
  ok        \* result of set_system_password: "unset", "True", "False"

vars == << pc, marker, files, wordset, pw1, pw2, reasons, dict, issues, passwd, ok >>

NoResult == Result(FALSE, NoMessage)

(***************************************************************************)
(* main (lines 147-182).                                                   *)
(***************************************************************************)
Init ==
  /\ pc = "start"
  /\ marker \in BOOLEAN
  /\ files \in [ Range(DEFAULT_DICT_FILES) -> DictFiles ]
  /\ wordset = << >>
  /\ pw1 = << >> /\ pw2 = << >>
  /\ reasons = << >>
  /\ dict = NoResult
  /\ issues = << >>
  /\ passwd = "none"
  /\ ok = "unset"

\* a loop that does not compare the two entries
MismatchIgnored(a, b) == FALSE

\* line 163
Mismatch(a, b) == a # b

\* line 168
Rejected(r) == r # << >>

\* lines 149-157
Start ==
  /\ pc = "start"
  /\ IF marker
       THEN /\ pc' = "returned"
            /\ UNCHANGED wordset
       ELSE /\ pc' = "prompt"
            /\ wordset' \in Orders(load_word_set(DEFAULT_DICT_FILES, files))
  /\ UNCHANGED << marker, files, pw1, pw2, reasons, dict, issues, passwd, ok >>

\* lines 160-175: one pass of the loop up to the call of the applier
Enter ==
  /\ pc = "prompt"
  /\ \E a, b \in PromptInputs :
       /\ pw1' = a
       /\ pw2' = b
       /\ IF Mismatch(a, b)
            THEN /\ pc' = "prompt"
                 /\ UNCHANGED reasons
            ELSE LET r == check_password_strength(a, wordset)
                 IN /\ reasons' = r
                    /\ pc' = IF Rejected(r) THEN "prompt" ELSE "apply"
  /\ UNCHANGED << marker, files, wordset, dict, issues, passwd, ok >>

\* lines 176-182
Apply ==
  /\ pc = "apply"
  /\ \E o \in PasswdBehaviours :
       /\ passwd' = o
       /\ LET res == set_system_password(pw1, o)
          IN IF res = "propagates"
               THEN /\ pc' = "crashed"
                    /\ UNCHANGED ok
               ELSE /\ ok' = res
                    /\ pc' = IF res = "True" THEN "exit0" ELSE "prompt"
  /\ UNCHANGED << marker, files, wordset, pw1, pw2, reasons, dict, issues >>

Next == Start \/ Enter \/ Apply

Spec == Init /\ [][Next]_vars

\* The process is scheduled: a step of its own that is possible is taken.
\* Nothing is assumed of the user, who may leave a prompt unanswered.
FairSpec == Spec /\ WF_vars(Start) /\ WF_vars(Apply)

(***************************************************************************)
(* The evaluator's functions called on their own, on any password and any  *)
(* word set.                                                               *)
(***************************************************************************)
InitCall(orders) ==
  /\ pc = "call"
  /\ marker = FALSE
  /\ files = [ p \in Range(DEFAULT_DICT_FILES) |-> File("missing", << >>) ]
  /\ wordset \in orders
  /\ pw1 \in Candidates
  /\ pw2 = pw1
  /\ reasons = << >>
  /\ dict = NoResult
  /\ issues = << >>
  /\ passwd = "none"
  /\ ok = "unset"

CallContainsDictionary ==
  /\ pc = "call"
  /\ dict' = contains_dictionary(pw1, wordset)
  /\ pc' = "contains_dictionary"
  /\ UNCHANGED << marker, files, wordset, pw1, pw2, reasons, issues, passwd, ok >>

CallObviousPatterns ==
  /\ pc = "call"
  /\ issues' = obvious_patterns(pw1)
  /\ pc' = "obvious_patterns"
  /\ UNCHANGED << marker, files, wordset, pw1, pw2, reasons, dict, passwd, ok >>

CallCheckPasswordStrength ==
  /\ pc = "call"
  /\ reasons' = check_password_strength(pw1, wordset)
  /\ pc' = "check_password_strength"
  /\ UNCHANGED << marker, files, wordset, pw1, pw2, dict, issues, passwd, ok >>

InitDict == InitCall(WordOrders)
SpecDict == InitDict /\ [][CallContainsDictionary]_vars

\* obvious_patterns takes no word set
InitPatterns == InitCall({ << >> })
SpecPatterns == InitPatterns /\ [][CallObviousPatterns]_vars

InitStrength == InitCall(WordOrders)
SpecStrength == InitStrength /\ [][CallCheckPasswordStrength]_vars

(***************************************************************************)
(* Properties of main.                                                     *)
(***************************************************************************)

\* C1: whenever the applier is about to be called, the password it gets was
\* entered identically at both prompts of this pass of the loop and
\* check_password_strength returned no reason for it.
C1_ApplierGetsAcceptedPassword ==
  pc = "apply" =>
    /\ pw1 = pw2
    /\ reasons = << >>
    /\ check_password_strength(pw1, wordset) = << >>

C1_Witness == pc = "apply" /\ pw1 = Strong8 \o Strong8 /\ pw2 = pw1

C3_SuccessExitsZero ==
  (ok # "unset" /\ passwd = "rc0") => (ok = "True" /\ pc = "exit0")

\* C9: a call of the applier never crashes the process; unless it returns
\* True, it returns False and main is back at the password prompt, from
\* where another attempt is always possible.
C9_ApplierFailureReprompts ==
  /\ [][ pc = "apply" =>
          /\ pc' # "crashed"
          /\ (passwd' \in {"rcNonzero", "missing"} \/ ok' # "True") =>
                (ok' = "False" /\ pc' = "prompt") ]_vars
  /\ [](pc = "prompt" => ENABLED Enter)

C9_Witness == ok = "False" /\ pc = "prompt" /\ passwd = "missing"

(***************************************************************************)
(* Properties of the evaluator.  The helpers below state the claims; they  *)
(* are written from the policy's wording, not from the code's loops.       *)
(***************************************************************************)
CharClass(c) ==
  IF c \in Range(LowerAlphabet) THEN "lowercase"
  ELSE IF c \in Range(UpperAlphabet) THEN "uppercase"
  ELSE IF c \in Range(DigitChars) THEN "digit"
  ELSE "symbol"

ClassesIn(pw) == { CharClass(pw[i]) : i \in 1..Len(pw) }

Has(rs, r) == \E i \in 1..Len(rs) : rs[i] = r

Stage(r) ==
  IF r.text = TooShort.text THEN 1
  ELSE IF r.text \in { DictWord(<< >>).text, ReversedDictWord(<< >>).text } THEN 2
  ELSE IF r.text \in { Repeated.text, WeakSequence(<< >>).text } THEN 3
  ELSE 4

Optional(cond, r) == IF cond THEN << r >> ELSE << >>

\* C4: check_password_strength returns the length reason (iff shorter than
\* 12), then the dictionary message (iff a hit), then the pattern issues in
\* the detector's order, then the diversity reason (iff its condition
\* holds); stages never appear out of order.
C4_ReasonsInStageOrder ==
  pc = "check_password_strength" =>
    LET d == contains_dictionary(pw1, wordset)
        diverse == ~(Cardinality(ClassesIn(pw1)) < 3 /\ Len(pw1) < 20)
    IN /\ reasons = Optional(Len(pw1) < 12, TooShort)
                      \o Optional(d.hit, d.msg)
                      \o obvious_patterns(pw1)
                      \o Optional(~diverse, TooSimilar)
       /\ \A i, j \in 1..Len(reasons) : i < j => Stage(reasons[i]) <= Stage(reasons[j])
       /\ Len(pw1) < 12 => (reasons # << >> /\ reasons[1] = TooShort)
       /\ Has(reasons, TooShort) => Len(pw1) < 12

C4_Witness ==
  /\ pc = "check_password_strength"
  /\ Len(reasons) >= 4
  /\ { Stage(reasons[i]) : i \in 1..Len(reasons) } = 1..4

\* C8: the diversity reason is present iff fewer than 3 of the 4 character
\* classes occur and the password is shorter than 20 characters.
C8_DiversityRule ==
  pc = "check_password_strength" =>
    (Has(reasons, TooSimilar) <=> (Cardinality(ClassesIn(pw1)) < 3 /\ Len(pw1) < 20))

C8_Witness ==
  /\ pc = "check_password_strength"
  /\ Len(pw1) >= 20
  /\ Cardinality(ClassesIn(pw1)) < 3
  /\ ~Has(reasons, TooSimilar)

\* the four reference strings, taken separately
FourReferences == << LowerAlphabet, KeyboardRows, DigitRun, PasswordToken >>

Windows(ref, l) == { SubSeq(ref, i, i + l - 1) : i \in 1..(Len(ref) - l + 1) }

Occurs(chunk, pw) == Contains(chunk, pw) \/ Contains(Reverse(chunk), pw)

\* the start of the first window of ref, of length l, that occurs in pw
FirstMatch(ref, l, pw) ==
  CHOOSE i \in 1..(Len(ref) - l + 1) :
     /\ Occurs(SubSeq(ref, i, i + l - 1), pw)
     /\ \A k \in 1..(i - 1) : ~Occurs(SubSeq(ref, k, k + l - 1), pw)

\* C5: for each of the four reference strings and each length 4 and 5,
\* exactly one weak-sequence issue iff a window of that string (or its
\* reversal) occurs in the password, naming the first such window; no issue
\* names a chunk that is not a window of one of the four strings.
C5_IssuePerReferenceAndLength ==
  pc = "obvious_patterns" =>
    LET lo == lower(pw1)
        IsWeak(r) == r.text = WeakSequence(<< >>).text
        weak == SelectSeq(issues, IsWeak)
        expected == { rl \in (1..4) \X {4, 5} :
                        \E w \in Windows(FourReferences[rl[1]], rl[2]) : Occurs(w, lo) }
    IN /\ Len(weak) = Cardinality(expected)
       /\ \A rl \in expected :
            LET ref == FourReferences[rl[1]]
                i == FirstMatch(ref, rl[2], lo)
            IN Has(weak, WeakSequence(SubSeq(ref, i, i + rl[2] - 1)))
       /\ \A k \in 1..Len(weak) :
            \E r \in 1..4 : weak[k].arg \in Windows(FourReferences[r], Len(weak[k].arg))

Normalize(s) ==
  [ i \in 1..Len(s) |-> IF s[i] \in DOMAIN LEET_MAP THEN LEET_MAP[s[i]] ELSE s[i] ]

LeetCount(s) == Cardinality({ i \in 1..Len(s) : s[i] \in DOMAIN LEET_MAP })

StagesOneAndTwoMiss(lo, words) ==
  /\ ~\E w \in words : Len(w) >= 4 /\ Contains(w, lo)
  /\ ~\E w \in words : Contains(w, Reverse(lo))

\* C6: when neither the verbatim nor the reversed stage hits, there is a
\* hit iff some non-empty prefix of the lowercased password holds at most 2
\* LeetMap characters and its normalization contains a word of the set.
C6_LeetPrefixBudget ==
  pc = "contains_dictionary" =>
    LET lo == lower(pw1)
        words == Range(wordset)
    IN StagesOneAndTwoMiss(lo, words) =>
         (dict.hit <=>
            \E k \in 1..Len(lo) :
               /\ LeetCount(SubSeq(lo, 1, k)) <= 2
               /\ \E w \in words : Contains(w, Normalize(SubSeq(lo, 1, k))))

C6_Witness ==
  /\ pc = "contains_dictionary"
  /\ wordset = << Dragon >>
  /\ pw1 = Dr4g0n \o Digits123456
  /\ dict = Result(TRUE, DictWord(Dragon))

OccursInPassword(w) == Contains(w, lower(pw1))

\* C7 as stated: with "password" in the word set and in the password
\* (case-insensitively), the hit names the word "password".
C7_NamesPassword ==
  (pc = "contains_dictionary" /\ Word_password \in Range(wordset)
     /\ OccursInPassword(Word_password))
    => (dict.hit /\ dict.msg = DictWord(Word_password))

\* C7 as amended: with "password" in the word set and in the password
\* (case-insensitively), there is a verbatim hit naming a word of the set
\* of length >= 4 that occurs in the lowercased password; it is "password"
\* when no other such word of the set occurs in the password.
C7_NamesAWordOfThePassword ==
  (pc = "contains_dictionary" /\ Word_password \in Range(wordset)
     /\ OccursInPassword(Word_password))
    => LET eligible == { w \in Range(wordset) : Len(w) >= 4 /\ OccursInPassword(w) }
       IN /\ dict.hit
          /\ \E w \in eligible : dict.msg = DictWord(w)
          /\ eligible = { Word_password } => dict.msg = DictWord(Word_password)

C7_Witness ==
  /\ pc = "contains_dictionary"
  /\ wordset = << Word_pass, Word_password >>
  /\ pw1 = Strong8 \o PassWordMixed
  /\ dict = Result(TRUE, DictWord(Word_pass))

=============================================================================
